---------------------------- MODULE Spec2Model ----------------------------
(***************************************************************************)
(* Smart Reading Companion: the content script of a browser extension that *)
(* injects a floating TL;DR control, extracts the article text of the page,*)
(* sends it to a local summarization backend and shows the answer in a     *)
(* dismissible panel.                                                      *)
(*                                                                         *)
(* The repository holds three iterations of the content script.  Each is   *)
(* modelled as a state machine of its own, over its own variables:         *)
(*   V1  src/content.js 1-255     the strategy-chain extractor and the     *)
(*                                click handler tldrBtn.onclick            *)
(*   V2  src/content.js 256-415   the preference toggle (ensureFab,        *)
(*                                removeFab) and the handler onTldrClick   *)
(*   V3  src/unnamed/part_000     the shadow-DOM control with the          *)
(*                                placement search, the drag and the panel *)
(* Definitions that exist in several iterations carry the suffix of theirs.*)
(*                                                                         *)
(* JavaScript runs each callback to completion: an action is one callback, *)
(* from the event (or the resumption after an await) to the next await.    *)
(***************************************************************************)
EXTENDS Integers, Sequences, FiniteSets, TLC

VARIABLES
  \* ---- V1 ----
  page1,      \* what the strategies read from the DOM of the page (fixed)
  btn1,       \* tldrBtn: [disabled, label]
  cyc1,       \* the activation cycles of tldrBtn.onclick, by number
  started1,   \* how many cycles have started
  overlay1,   \* the result panel #__src_overlay__ (NoOverlay when absent)
  sent1,      \* number of requests the cycles have sent to the backend
  last1,      \* the callback that ran last and what became of it

  \* ---- V2 ----
  page2,        \* what extractSimple reads from the DOM of the page (fixed)
  stored2,      \* the "enabled" preference in chrome.storage.sync
  read2,        \* whether the startup read's callback has run
  SRC_ENABLED,  \* the script's copy of the preference
  tldrBtn,      \* the script's global: the number of the control, 0 for null
  btns2,        \* every control built so far, by number
  nBtn2,        \* how many controls have been built
  cyc2,         \* the activation cycles of onTldrClick, by number
  started2,     \* how many cycles have started
  overlay2,     \* the result panel #__src_overlay__
  sent2,        \* number of requests the cycles have sent to the backend
  last2,        \* the callback that ran last and what became of it
  \* ---- V3 ----
  viewport3,    \* the window's inner size [w, h]
  style3,       \* tldrHost.style: [right, left, bottom, top], a number or Auto
  dragging3,    \* the closure variable dragging
  downs3,       \* the mousedowns since the last mouseup
  sx3, sy3,     \* the pointer position recorded at mousedown
  startRight3,  \* the offsets recorded at mousedown
  startBottom3,
  display3,     \* tldrHost.style.display: "" or "none"
  panel3,       \* whether the result panel #__src_overlay__ is in the body
  busy3,        \* tldrButton.disabled: a click's cycle has not ended
  records3,     \* whether mutation records are queued for the observer
  last3,        \* the callback that ran last and its hit-tests
  \* ---- the helpers of V1 on a DOM ----
  domD,         \* the page: for each container, the innerText of its
                \* paragraph-like elements, in document order
  matchesD,     \* the containers the selection rules of the scanner match, in
                \* the order the rules yield them
  readabD,      \* what new Readability(clone).parse() does on the page
  lastD         \* the call made last and what it returned

vars1 == <<page1, btn1, cyc1, started1, overlay1, sent1, last1>>
vars2 == <<page2, stored2, read2, SRC_ENABLED, tldrBtn, btns2, nBtn2, cyc2,
           started2, overlay2, sent2, last2>>
vars3 == <<viewport3, style3, dragging3, downs3, sx3, sy3, startRight3,
           startBottom3, display3, panel3, busy3, records3, last3>>
varsD == <<domD, matchesD, readabD, lastD>>
vars == <<vars1, vars2, vars3, varsD>>

\* a callback of one iteration leaves the other iterations' state alone
Frame1 == UNCHANGED <<vars2, vars3, varsD>>
Frame2 == UNCHANGED <<vars1, vars3, varsD>>
Frame3 == UNCHANGED <<vars1, vars2, varsD>>
FrameD == UNCHANGED <<vars1, vars2, vars3>>

(***************************************************************************)
(* Text.  A string is kept run-length encoded: a sequence of chunks        *)
(* [k, n], n >= 1 characters of kind k.  "w" is a run of non-whitespace    *)
(* characters, "sp" spaces, "nl" newlines, "nb" no-break spaces (U+00A0).  *)
(* JavaScript's \s and trim() treat "sp", "nl" and "nb" as whitespace.     *)
(***************************************************************************)
Chunk(k, n) == [k |-> k, n |-> n]
W(n)  == <<Chunk("w", n)>>
SP(n) == <<Chunk("sp", n)>>
NL(n) == <<Chunk("nl", n)>>
NB(n) == <<Chunk("nb", n)>>
Empty == <<>>

IsWs(c) == c.k \in {"sp", "nl", "nb"}

RECURSIVE StrLen(_)
\* String.prototype.length
StrLen(t) == IF t = <<>> THEN 0 ELSE Head(t).n + StrLen(Tail(t))

RECURSIVE NormLenFrom(_, _)
\* t.replace(/\s+/g, " ").length; prevWs: the previous chunk was whitespace
NormLenFrom(t, prevWs) ==
  IF t = <<>> THEN 0
  ELSE IF IsWs(Head(t))
       THEN (IF prevWs THEN 0 ELSE 1) + NormLenFrom(Tail(t), TRUE)
       ELSE Head(t).n + NormLenFrom(Tail(t), FALSE)

NormLen(t) == NormLenFrom(t, FALSE)

RECURSIVE TrimStart(_)
TrimStart(t) == IF t # <<>> /\ IsWs(Head(t)) THEN TrimStart(Tail(t)) ELSE t

RECURSIVE TrimEnd(_)
TrimEnd(t) ==
  IF t # <<>> /\ IsWs(t[Len(t)]) THEN TrimEnd(SubSeq(t, 1, Len(t) - 1)) ELSE t

\* String.prototype.trim
Trim(t) == TrimEnd(TrimStart(t))

RECURSIVE Merge(_)
\* the same string with adjacent chunks of one kind joined
Merge(t) ==
  IF Len(t) < 2 THEN t
  ELSE IF t[1].k = t[2].k
       THEN Merge(<<Chunk(t[1].k, t[1].n + t[2].n)>> \o SubSeq(t, 3, Len(t)))
       ELSE <<t[1]>> \o Merge(Tail(t))

\* text.replace(/ /g, " ")
ReplaceNbsp(t) ==
  Merge([i \in 1..Len(t) |-> IF t[i].k = "nb" THEN Chunk("sp", t[i].n) ELSE t[i]])

RECURSIVE WsPrefix(_)
\* the number of leading whitespace chunks
WsPrefix(t) == IF t # <<>> /\ IsWs(Head(t)) THEN 1 + WsPrefix(Tail(t)) ELSE 0

\* the index of the last chunk of newlines in the run, 0 when it has none
LastNl(run) ==
  LET S == {i \in 1..Len(run) : run[i].k = "nl"}
  IN IF S = {} THEN 0 ELSE CHOOSE i \in S : \A j \in S : j <= i

RECURSIVE CollapseBeforeNl(_)
\* text.replace(/\s+\n/g, "\n"): in each maximal whitespace run the greedy match
\* reaches from the run's first character to its last newline, and needs at
\* least one whitespace character before that newline
CollapseBeforeNl(t) ==
  IF t = <<>> THEN <<>>
  ELSE IF ~IsWs(Head(t)) THEN <<Head(t)>> \o CollapseBeforeNl(Tail(t))
  ELSE LET r == WsPrefix(t)
           run == SubSeq(t, 1, r)
           m == LastNl(run)
       IN (IF m > 0 /\ StrLen(SubSeq(run, 1, m)) >= 2
           THEN NL(1) \o SubSeq(run, m + 1, r)
           ELSE run) \o CollapseBeforeNl(SubSeq(t, r + 1, Len(t)))

\* text.replace(/\n{3,}/g, "\n\n")
CollapseNl(t) ==
  [i \in 1..Len(t) |-> IF t[i].k = "nl" /\ t[i].n >= 3 THEN Chunk("nl", 2) ELSE t[i]]

\* src/content.js:159, the final normalization of extractArticleText
FinalNormalize(t) == Trim(CollapseNl(CollapseBeforeNl(ReplaceNbsp(t))))

(***************************************************************************)
(* Messages: what a cycle ends with, a summary or an error.                *)
(***************************************************************************)
Msg(kind, status, text) == [kind |-> kind, status |-> status, text |-> text]
Summary(t) == Msg("summary", 0, t)
\* new Error("Could not extract article content on this page.")
ExtractionFailed == Msg("ExtractionFailed", 0, Empty)
\* new Error("Extracted text is too short to summarize.")
TooShort == Msg("TooShort", 0, Empty)
\* fetch() rejects: the backend cannot be reached
BackendUnreachable == Msg("BackendUnreachable", 0, Empty)
\* new Error(`Backend error ${resp.status}: ${errText}`)
BackendError(status, errText) == Msg("BackendError", status, errText)
\* new Error("Backend returned no summary field.")
Malformed == Msg("Malformed", 0, Empty)
\* resp.json() rejects (the body is not JSON, or cannot be read)
JsonError == Msg("JsonError", 0, Empty)
\* data is null: reading data.summary throws a TypeError
NullData == Msg("TypeError", 0, Empty)

IsError(m) == m.kind \notin {"summary", "none"}

(***************************************************************************)
(* The backend's answers.  A response is a network failure or an HTTP      *)
(* response [status, readable, json]: readable is whether the body can be  *)
(* read, json what it parses to.                                           *)
(***************************************************************************)
Statuses == {200, 299, 300, 500}
JsonKinds == {"invalid", "null", "nofield", "empty", "summary"}
Responses ==
  {[k |-> "neterr", status |-> 0, readable |-> FALSE, json |-> "invalid"]}
  \cup [k : {"http"}, status : Statuses, readable : {TRUE}, json : JsonKinds]
  \cup [k : {"http"}, status : Statuses, readable : {FALSE}, json : {"invalid"}]

\* Response.ok
RespOk(resp) == resp.status >= 200 /\ resp.status <= 299

\* the body as text, what resp.text() resolves to
BodyText(resp) ==
  CASE resp.json = "invalid" -> W(9)
    [] resp.json = "null"    -> W(4)
    [] resp.json = "nofield" -> W(2)
    [] resp.json = "empty"   -> W(14)
    [] OTHER                 -> W(44)

\* data.summary of a body that has one
SummaryText == W(30)

\* await resp.text().catch(() => "")
ErrText(resp) == IF resp.readable THEN BodyText(resp) ELSE Empty

\* summarizeText of src/content.js:164-177; the result is what the await in
\* the click handler resolves to (a summary) or rejects with (an error)
summarizeTextV1(resp) ==
  IF resp.k = "neterr" THEN BackendUnreachable
  ELSE IF ~RespOk(resp) THEN BackendError(resp.status, ErrText(resp))
  ELSE IF ~resp.readable \/ resp.json = "invalid" THEN JsonError
  ELSE IF resp.json = "null" THEN NullData
  ELSE IF resp.json \in {"nofield", "empty"} THEN Malformed
  ELSE Summary(SummaryText)

(***************************************************************************)
(* Bounds of the model.                                                    *)
(***************************************************************************)
\* activations that start a cycle in one behaviour of V1
MaxCycles1 == 2

CycleIds1 == 1..MaxCycles1

(***************************************************************************)
(* The control's label and the result panel.                               *)
(***************************************************************************)
\* a button's content: its textContent, and whether it still is the markup
\* the script built it with (assigning textContent replaces the children)
Label(text, markup) == [text |-> text, markup |-> markup]
NoLabel == Label("", FALSE)

NoMsg == Msg("none", 0, Empty)
NoOverlay == [shown |-> FALSE, title |-> Empty, body |-> NoMsg]
\* the title the handlers give an error panel: 'Summary Error'
ErrorTitle == W(7) \o SP(1) \o W(5)

\* showOverlay(title, summary): any old panel is removed, a new one appended
showOverlay(title, body) == [shown |-> TRUE, title |-> title, body |-> body]

IdleCycle == [pc |-> "idle", original |-> NoLabel, title |-> Empty, text |-> Empty]
EndedCycleRetry == [pc |-> "delay", original |-> NoLabel, title |-> Empty, text |-> Empty]
EndedCycle == [pc |-> "ended", original |-> NoLabel, title |-> Empty, text |-> Empty]

Last(ev, id, calls, out) == [ev |-> ev, id |-> id, calls |-> calls, out |-> out]

(***************************************************************************)
(* V1: src/content.js 1-255.                                               *)
(***************************************************************************)
RichThreshold == 800
ViableThreshold == 400
MinSummarizable == 80

\* location.hostname as its labels; host.endsWith("reddit.com") is read on
\* whole labels ("reddit", "com" last)
Hosts == {<<"www", "reddit", "com">>, <<"example", "org">>}
IsRedditHost(h) == Len(h) >= 2 /\ h[Len(h) - 1] = "reddit" /\ h[Len(h)] = "com"

\* document.title
DocTitle == W(8)

\* texts the strategies find, around the thresholds of the chain
Texts1 ==
  { Empty, W(80), W(400), W(799), W(800),
    W(40) \o NL(2) \o W(38),            \* 80 characters, 79 once normalized
    W(300) \o SP(2) \o W(98),           \* 400 characters, normalized length 399
    W(500) \o SP(400) \o W(100) }       \* 1000 characters, normalized length 601

\* what new Readability(clone).parse() does: it throws, returns null, or
\* returns an article {title, textContent}
Readab(k, title, text) == [k |-> k, title |-> title, textContent |-> text]
ReadabOutcomes ==
  {Readab("throws", Empty, Empty), Readab("null", Empty, Empty)}
  \cup {Readab("article", ti, tx) :
          ti \in {Empty, W(6)},
          tx \in {SP(3), W(50) \o NL(1), SP(1) \o W(900)}}
  \cup {Readab("article", W(6), Empty)}

\* the page as the strategies see it: site is what extractReddit returns on it,
\* big the text of largestTextBlock's winner, readab the readability outcome
Pages1 ==
  [host : {<<"www", "reddit", "com">>},
   site : [title : {DocTitle, W(5)}, text : Texts1],
   big : Texts1, readab : ReadabOutcomes]
  \cup
  [host : {<<"example", "org">>},
   site : {[title |-> DocTitle, text |-> Empty]},
   big : Texts1, readab : ReadabOutcomes]

\* a || b on strings
OrElse(a, b) == IF a # Empty THEN a ELSE b

\* src/content.js:138, the guard of the largest-text-block step
NeedsScannerIfEmpty(text) == text = Empty
NeedsScannerLax(text) == text = Empty \/ NormLen(text) <= RichThreshold
NeedsScanner(text) == text = Empty \/ NormLen(text) < RichThreshold

\* src/content.js:144, the guard of the readability step
NeedsReadabilityNever(text) == FALSE
NeedsReadability(text) == text = Empty \/ NormLen(text) < ViableThreshold

\* src/content.js:140 and 151: a later text replaces the held one
AdoptsNotShorter(found, held) == found # Empty /\ StrLen(found) >= StrLen(held)
Adopts(found, held) == found # Empty /\ StrLen(found) > StrLen(held)

\* src/content.js:245, the guard of the handler
TooShortToSummarizeOffByOne(text) == StrLen(text) < MinSummarizable - 1
TooShortToSummarize(text) == StrLen(text) < MinSummarizable

\* extractArticleText, src/content.js:123-161, from the resumption after the
\* 300 ms timer to its return or throw.  calls lists what it invoked, in order.
extractArticleText(page) ==
  LET reddit == IsRedditHost(page.host)
      title0 == IF reddit THEN page.site.title ELSE Empty
      text0 == IF reddit THEN page.site.text ELSE Empty
      scan == NeedsScanner(text0)
      text1 == IF scan /\ Adopts(page.big, text0) THEN page.big ELSE text0
      read == NeedsReadability(text1)
      art == page.readab
      hasArt == read /\ art.k = "article" /\ art.textContent # Empty
      title2 == IF hasArt THEN Trim(OrElse(art.title, OrElse(title0, DocTitle)))
                ELSE title0
      t == Trim(art.textContent)
      text2 == IF hasArt /\ Adopts(t, text1) THEN t ELSE text1
      title3 == IF title2 = Empty THEN DocTitle ELSE title2
  IN [ok |-> text2 # Empty,
      title |-> title3,
      text |-> FinalNormalize(text2),
      calls |-> <<"expandCollapsers">>
                \o (IF reddit THEN <<"extractReddit">> ELSE <<>>)
                \o (IF scan THEN <<"largestTextBlock">> ELSE <<>>)
                \o (IF read THEN <<"Readability">> ELSE <<>>)]

\* the finally block of the handler: the label and the control are restored
Finally1(original) == [disabled |-> FALSE, label |-> Label(original.text, FALSE)]

\* a click on tldrBtn; a disabled button dispatches no click event.  The handler
\* runs to the await of the 300 ms timer in extractArticleText.
Click1 ==
  /\ Frame1
  /\ started1 < MaxCycles1
  /\ IF btn1.disabled
     THEN /\ last1' = Last("rejected", 0, <<>>, NoMsg)
          /\ UNCHANGED <<page1, btn1, cyc1, started1, overlay1, sent1>>
     ELSE /\ started1' = started1 + 1
          /\ cyc1' = [cyc1 EXCEPT ![started1 + 1] =
                        [pc |-> "delay", original |-> btn1.label,
                         title |-> Empty, text |-> Empty]]
          /\ btn1' = [disabled |-> TRUE, label |-> Label("Summarizing...", FALSE)]
          /\ last1' = Last("click", started1 + 1, <<"setTimeout">>, NoMsg)
          /\ UNCHANGED <<page1, overlay1, sent1>>

\* the timer fires: the extraction runs, then the handler up to the fetch of
\* summarizeText, or through catch and finally when the extraction fails or
\* the text is too short
Timer1(c) ==
  /\ Frame1
  /\ cyc1[c].pc = "delay"
  /\ LET r == extractArticleText(page1)
         err == IF ~r.ok THEN ExtractionFailed
                ELSE IF TooShortToSummarize(r.text) THEN TooShort
                ELSE NoMsg
     IN IF err # NoMsg
        THEN /\ overlay1' = showOverlay(ErrorTitle, err)
             /\ btn1' = Finally1(cyc1[c].original)
             /\ cyc1' = [cyc1 EXCEPT ![c] = EndedCycle]
             /\ last1' = Last("timer", c, r.calls, err)
             /\ UNCHANGED <<page1, started1, sent1>>
        ELSE /\ cyc1' = [cyc1 EXCEPT ![c] =
                           [pc |-> "fetch", original |-> cyc1[c].original,
                            title |-> r.title, text |-> r.text]]
             /\ sent1' = sent1 + 1
             /\ last1' = Last("timer", c, r.calls \o <<"fetch">>, NoMsg)
             /\ UNCHANGED <<page1, btn1, started1, overlay1>>

\* the backend answers (or the request fails): summarizeText ends, the panel
\* shows the summary or the error, and finally restores the control
Response1(c, resp) ==
  /\ Frame1
  /\ cyc1[c].pc = "fetch"
  /\ LET out == summarizeTextV1(resp)
     IN /\ overlay1' = IF IsError(out) THEN showOverlay(ErrorTitle, out)
                       ELSE showOverlay(cyc1[c].title, out)
        /\ last1' = Last("response", c, <<>>, out)
  /\ btn1' = Finally1(cyc1[c].original)
  /\ cyc1' = [cyc1 EXCEPT ![c] = EndedCycle]
  /\ UNCHANGED <<page1, started1, sent1>>

\* Close or Done on the panel
Dismiss1 ==
  /\ Frame1
  /\ overlay1.shown
  /\ overlay1' = NoOverlay
  /\ last1' = Last("dismiss", 0, <<>>, NoMsg)
  /\ UNCHANGED <<page1, btn1, cyc1, started1, sent1>>

(***************************************************************************)
(* V2: src/content.js 256-415.                                             *)
(***************************************************************************)
\* activations that start a cycle in one behaviour of V2
MaxCycles2 == 3
\* controls ensureFab builds in one behaviour
MaxButtons2 == 2

CycleIds2 == 1..MaxCycles2
ButtonIds2 == 1..MaxButtons2

\* the page as extractSimple sees it: the readability outcome and the
\* innerText of the main element (or of the body)
Pages2 ==
  [readab : {Readab("throws", Empty, Empty),
             Readab("article", W(6), W(100) \o NL(1)),
             Readab("article", Empty, SP(3))},
   main : {Empty, W(79), SP(2) \o W(80)}]

\* extractSimple, src/content.js:302-318
extractSimple(page) ==
  LET art == page.readab
      got == art.k = "article"
      title == IF got /\ art.title # Empty THEN art.title ELSE DocTitle
      text0 == IF got /\ art.textContent # Empty THEN Trim(art.textContent) ELSE Empty
      text == IF text0 = Empty THEN Trim(page.main) ELSE text0
  IN [title |-> title, text |-> text]

\* summarizeText of src/content.js:323-335
summarizeTextV2(resp) ==
  IF resp.k = "neterr" THEN BackendUnreachable
  ELSE IF ~RespOk(resp) THEN BackendError(resp.status, ErrText(resp))
  ELSE IF ~resp.readable \/ resp.json = "invalid" THEN JsonError
  ELSE IF resp.json = "null" THEN NullData
  ELSE IF resp.json \in {"nofield", "empty"} THEN Summary(Empty)
  ELSE Summary(SummaryText)

\* a control: where it is (not built, in the page, removed), its disabled
\* flag, its label and whether onTldrClick listens on it
Button(state, disabled, label, listener) ==
  [state |-> state, disabled |-> disabled, label |-> label, listener |-> listener]
NoButton == Button("none", FALSE, NoLabel, FALSE)
\* src/content.js:281-288
NewButton == Button("dom", FALSE, Label(" TL;DR", TRUE), TRUE)

DomButtons == {b \in ButtonIds2 : btns2[b].state = "dom"}

Fab(tb, bs, n) == [tldrBtn |-> tb, btns |-> bs, n |-> n]

\* ensureFab without the test of src/content.js:279
ensureFabUnguarded(tb, bs, n) ==
  Fab(n + 1, [bs EXCEPT ![n + 1] = NewButton], n + 1)

\* ensureFab, src/content.js:278-289, on (tldrBtn, the controls, their count)
ensureFab(tb, bs, n) ==
  IF tb # 0 /\ bs[tb].state = "dom" THEN Fab(tb, bs, n)
  ELSE Fab(n + 1, [bs EXCEPT ![n + 1] = NewButton], n + 1)

\* whether ensureFab builds a control
Builds(tb, bs) == ~(tb # 0 /\ bs[tb].state = "dom")

\* removeFab, src/content.js:291-296, on (tldrBtn, the controls, their count)
removeFab(tb, bs, n) ==
  IF tb # 0
  THEN Fab(0, [bs EXCEPT ![tb] = Button("removed", @.disabled, @.label, FALSE)], n)
  ELSE Fab(tb, bs, n)

Last2(ev, id, btn, out, resp, threw) ==
  [ev |-> ev, id |-> id, btn |-> btn, out |-> out, resp |-> resp, threw |-> threw]
NoResp == [k |-> "none", status |-> 0, readable |-> FALSE, json |-> "invalid"]

Cycle2(pc, btn, original, title) ==
  [pc |-> pc, btn |-> btn, original |-> original, title |-> title]
IdleCycle2 == Cycle2("idle", 0, NoLabel, Empty)
EndedCycle2 == Cycle2("ended", 0, NoLabel, Empty)

\* the callback of chrome.storage.sync.get, src/content.js:262-265
StartupRead2 ==
  /\ Frame2
  /\ ~read2
  /\ stored2 => (Builds(tldrBtn, btns2) => nBtn2 < MaxButtons2)
  /\ read2' = TRUE
  /\ SRC_ENABLED' = stored2
  /\ LET f == IF stored2 THEN ensureFab(tldrBtn, btns2, nBtn2)
              ELSE Fab(tldrBtn, btns2, nBtn2)
     IN /\ tldrBtn' = f.tldrBtn
        /\ btns2' = f.btns
        /\ nBtn2' = f.n
        /\ last2' = Last2("startup", 0, IF f.n > nBtn2 THEN f.n ELSE 0,
                          NoMsg, NoResp, FALSE)
  /\ UNCHANGED <<page2, stored2, cyc2, started2, overlay2, sent2>>

\* the popup flips the preference (src/popup.js:15-18, 27) and the listener of
\* chrome.storage.onChanged handles the notification, src/content.js:266-275
OnChanged2 ==
  LET newValue == ~stored2
  IN /\ Frame2
     /\ newValue => (Builds(tldrBtn, btns2) => nBtn2 < MaxButtons2)
     /\ stored2' = newValue
     /\ SRC_ENABLED' = newValue
     /\ LET f == IF newValue THEN ensureFab(tldrBtn, btns2, nBtn2)
                 ELSE removeFab(tldrBtn, btns2, nBtn2)
        IN /\ tldrBtn' = f.tldrBtn
           /\ btns2' = f.btns
           /\ nBtn2' = f.n
           /\ last2' = Last2("changed", 0, IF f.n > nBtn2 THEN f.n ELSE 0,
                             NoMsg, NoResp, FALSE)
     /\ overlay2' = IF newValue THEN overlay2 ELSE NoOverlay
     /\ UNCHANGED <<page2, read2, cyc2, started2, sent2>>

\* the finally block of onTldrClick, src/content.js:411-414: it writes through
\* the global tldrBtn, and throws a TypeError when that is null
FinallyThrows2(tb) == tb = 0
Finally2(tb, bs, original) ==
  IF tb = 0 THEN bs
  ELSE [bs EXCEPT ![tb] = Button(@.state, FALSE, Label(original.text, FALSE), @.listener)]

\* a click on control b; a disabled button dispatches no click event.  The
\* handler onTldrClick runs to the fetch of summarizeText, or through catch
\* and finally when the text is too short
Click2(b) ==
  /\ Frame2
  /\ btns2[b].state = "dom"
  /\ btns2[b].listener
  /\ tldrBtn # 0
  /\ started2 < MaxCycles2
  /\ IF btns2[b].disabled
     THEN /\ last2' = Last2("rejected", 0, b, NoMsg, NoResp, FALSE)
          /\ UNCHANGED <<btns2, cyc2, started2, overlay2, sent2>>
     ELSE LET c == started2 + 1
              original == btns2[tldrBtn].label
              r == extractSimple(page2)
          IN /\ started2' = c
             /\ IF TooShortToSummarize(r.text)
                THEN /\ overlay2' = showOverlay(ErrorTitle, TooShort)
                     /\ btns2' = Finally2(tldrBtn, btns2, original)
                     /\ cyc2' = [cyc2 EXCEPT ![c] = EndedCycle2]
                     /\ last2' = Last2("click", c, b, TooShort, NoResp, FALSE)
                     /\ UNCHANGED sent2
                ELSE /\ btns2' = [btns2 EXCEPT ![tldrBtn] =
                                    Button(@.state, TRUE,
                                           Label("Summarizing...", FALSE), @.listener)]
                     /\ cyc2' = [cyc2 EXCEPT ![c] = Cycle2("fetch", b, original, r.title)]
                     /\ sent2' = sent2 + 1
                     /\ last2' = Last2("click", c, b, NoMsg, NoResp, FALSE)
                     /\ UNCHANGED overlay2
  /\ UNCHANGED <<page2, stored2, read2, SRC_ENABLED, tldrBtn, nBtn2>>

\* the backend answers (or the request fails): summarizeText ends, the panel
\* shows the summary or the error, and the finally block runs
Response2(c, resp) ==
  /\ Frame2
  /\ cyc2[c].pc = "fetch"
  /\ LET out == summarizeTextV2(resp)
     IN /\ overlay2' = IF IsError(out) THEN showOverlay(ErrorTitle, out)
                       ELSE showOverlay(cyc2[c].title, out)
        /\ last2' = Last2("response", c, cyc2[c].btn, out, resp,
                          FinallyThrows2(tldrBtn))
  /\ btns2' = Finally2(tldrBtn, btns2, cyc2[c].original)
  /\ cyc2' = [cyc2 EXCEPT ![c] = EndedCycle2]
  /\ UNCHANGED <<page2, stored2, read2, SRC_ENABLED, tldrBtn, nBtn2, started2, sent2>>

\* Close or Done on the panel
Dismiss2 ==
  /\ Frame2
  /\ overlay2.shown
  /\ overlay2' = NoOverlay
  /\ last2' = Last2("dismiss", 0, 0, NoMsg, NoResp, FALSE)
  /\ UNCHANGED <<page2, stored2, read2, SRC_ENABLED, tldrBtn, btns2, nBtn2, cyc2,
                 started2, sent2>>

(***************************************************************************)
(* V3: src/unnamed/part_000, the placement of the control and its drag.     *)
(***************************************************************************)
\* the value 'auto' of an offset
Auto == -1
\* the distance of a corner from the window's edges, in px
Margin == 16
\* the fallback slides up by this much at a time, in px
SlideStep == 100
\* the number of fallback positions tried
SlideAttempts == 5
\* the width and height of the button, in px
ButtonSize == 64

Style(right, left, bottom, top) ==
  [right |-> right, left |-> left, bottom |-> bottom, top |-> top]

\* src/unnamed/part_000:172-177, in the order the search tries them
cornersLeftFirst ==
  << Style(Auto, Margin, Margin, Auto), Style(Margin, Auto, Margin, Auto),
     Style(Auto, Margin, Auto, Margin), Style(Margin, Auto, Auto, Margin) >>
corners ==
  << Style(Margin, Auto, Margin, Auto), Style(Auto, Margin, Margin, Auto),
     Style(Margin, Auto, Auto, Margin), Style(Auto, Margin, Auto, Margin) >>

\* applyCorner, src/unnamed/part_000:178-183: all four offsets are written
applyCorner(c) == Style(c.right, c.left, c.bottom, c.top)

\* src/unnamed/part_000:200-203: the fallback position at an offset
slideTo(offset) == Style(Margin, Auto, Margin + offset, Auto)

\* src/unnamed/part_000:205
nextOffsetStuck(offset) == offset
nextOffset(offset) == offset + SlideStep

\* the hit-tests one search can make
MaxTests == Len(corners) + SlideAttempts

\* isClickable, src/unnamed/part_000:184-192: whether the element at the
\* centre of the host is the host; the page decides that each time it is
\* asked.  hits[i] is the answer to the i-th hit-test of one search.  A search
\* stops at the first TRUE, so hits is given up to there: n failures, then
\* successes.
HitSeqs == {[i \in 1..MaxTests |-> i > n] : n \in 0..MaxTests}
isClickable(hits, tested) == hits[Len(tested) + 1]

\* a host with display none has no box: its centre is the origin and the
\* element found there is never the host, so every hit-test fails
NoHit == [i \in 1..MaxTests |-> FALSE]
Answers(display) == IF display = "none" THEN {NoHit} ELSE HitSeqs

\* src/unnamed/part_000:125: the host is appended to the root element;
\* src/unnamed/part_000:212: the observer watches the subtree of the body for
\* child-list and attribute changes
hostParentBody == "body"
hostParent == "documentElement"
Observed(parent) == parent = "body"

\* the records queued once a search has written the host's offsets
QueuedAfterSearch(queued) == queued \/ Observed(hostParent)

Found(st, tested, passed) == [style |-> st, tested |-> tested, passed |-> passed]

RECURSIVE slideUp(_, _, _, _, _)
\* the loop of src/unnamed/part_000:198-206, from attempt i on
slideUp(i, offset, hits, tested, passed) ==
  LET st == slideTo(offset)
      ok == isClickable(hits, tested)
  IN IF ok \/ i + 1 >= SlideAttempts
     THEN Found(st, Append(tested, st), Append(passed, ok))
     ELSE slideUp(i + 1, nextOffset(offset), hits, Append(tested, st),
                  Append(passed, ok))

RECURSIVE tryCorners(_, _, _, _)
\* the loop of src/unnamed/part_000:194-197, from corner i on
tryCorners(i, hits, tested, passed) ==
  IF i > Len(corners) THEN slideUp(0, SlideStep, hits, tested, passed)
  ELSE LET st == applyCorner(corners[i])
           ok == isClickable(hits, tested)
       IN IF ok THEN Found(st, Append(tested, st), Append(passed, ok))
          ELSE tryCorners(i + 1, hits, Append(tested, st), Append(passed, ok))

\* ensureVisible, src/unnamed/part_000:193-207: the style it leaves the host
\* with, the styles it hit-tested in order and what each hit-test said
ensureVisible(hits) == tryCorners(1, hits, <<>>, <<>>)

Viewports == {[w |-> 360, h |-> 640], [w |-> 1280, h |-> 720]}
\* clientX and clientY of the pointer events
Pointers == {[x |-> 100, y |-> 100], [x |-> 160, y |-> 160]}
\* the mousedowns (of any button) one drag is followed through
MaxDowns3 == 2

Max(a, b) == IF a >= b THEN a ELSE b

Last3(ev, tested, passed, x, y) ==
  [ev |-> ev, tested |-> tested, passed |-> passed, x |-> x, y |-> y]

\* a search run by a signal
Search3(ev, hits) ==
  /\ Frame3
  /\ hits \in Answers(display3)
  /\ LET f == ensureVisible(hits)
     IN /\ style3' = f.style
        /\ last3' = Last3(ev, f.tested, f.passed, 0, 0)
  /\ UNCHANGED <<dragging3, downs3, sx3, sy3, startRight3, startBottom3,
                 display3, panel3, busy3>>

\* window scroll, src/unnamed/part_000:209.  A task starts once the observer
\* has been notified of the records queued before it.
Scroll3(hits) ==
  /\ ~records3
  /\ Search3("scroll", hits)
  /\ records3' = QueuedAfterSearch(FALSE)
  /\ UNCHANGED viewport3

\* window resize, src/unnamed/part_000:210
Resize3(hits, vp) ==
  /\ ~records3
  /\ vp # viewport3
  /\ Search3("resize", hits)
  /\ records3' = QueuedAfterSearch(FALSE)
  /\ viewport3' = vp

\* the callback of the MutationObserver on document.body,
\* src/unnamed/part_000:211-212: it is handed the queued records
Mutation3(hits) ==
  /\ records3
  /\ Search3("mutation", hits)
  /\ records3' = QueuedAfterSearch(FALSE)
  /\ UNCHANGED viewport3

\* the page, or the Copy button of the panel (src/unnamed/part_000:85-86),
\* changes something below the body
BodyChange3 ==
  /\ Frame3
  /\ ~records3
  /\ records3' = TRUE
  /\ last3' = Last3("bodychange", <<>>, <<>>, 0, 0)
  /\ UNCHANGED <<viewport3, style3, dragging3, downs3, sx3, sy3, startRight3,
                 startBottom3, display3, panel3, busy3>>

\* a click on the button, src/unnamed/part_000:153-158, up to the first await;
\* the button is in the shadow tree of the host, outside the body
Click3 ==
  /\ Frame3
  /\ ~records3
  /\ display3 # "none"
  /\ ~busy3
  /\ busy3' = TRUE
  /\ last3' = Last3("click", <<>>, <<>>, 0, 0)
  /\ UNCHANGED <<viewport3, style3, dragging3, downs3, sx3, sy3, startRight3,
                 startBottom3, display3, panel3, records3>>

\* the click handler after its last await, src/unnamed/part_000:162-169:
\* showOverlay (src/unnamed/part_000:47-105) hides the host, replaces the
\* panel in the body by a new one, and finally re-enables the button
CycleEnd3 ==
  /\ Frame3
  /\ ~records3
  /\ busy3
  /\ display3' = "none"
  /\ panel3' = TRUE
  /\ busy3' = FALSE
  /\ records3' = TRUE
  /\ last3' = Last3("panel", <<>>, <<>>, 0, 0)
  /\ UNCHANGED <<viewport3, style3, dragging3, downs3, sx3, sy3, startRight3,
                 startBottom3>>

\* Close or Done on the panel, src/unnamed/part_000:67-70 and 95-98
Dismiss3 ==
  /\ Frame3
  /\ ~records3
  /\ panel3
  /\ panel3' = FALSE
  /\ display3' = ""
  /\ records3' = TRUE
  /\ last3' = Last3("dismiss", <<>>, <<>>, 0, 0)
  /\ UNCHANGED <<viewport3, style3, dragging3, downs3, sx3, sy3, startRight3,
                 startBottom3, busy3>>

\* parseInt(tldrHost.style.right === 'auto' ? '16' : tldrHost.style.right)
parseOffset(v) == IF v = Auto THEN Margin ELSE v

\* mousedown on the button, src/unnamed/part_000:216-222
MouseDown3(x, y) ==
  /\ Frame3
  /\ ~records3
  /\ display3 # "none"
  /\ downs3 < MaxDowns3
  /\ downs3' = downs3 + 1
  /\ dragging3' = TRUE
  /\ sx3' = x
  /\ sy3' = y
  /\ startRight3' = parseOffset(style3.right)
  /\ startBottom3' = parseOffset(style3.bottom)
  /\ last3' = Last3("mousedown", <<>>, <<>>, x, y)
  /\ UNCHANGED <<viewport3, style3, display3, panel3, busy3, records3>>

\* onDrag, src/unnamed/part_000:223-227; it listens from mousedown to mouseup
onDrag(x, y) ==
  /\ Frame3
  /\ ~records3
  /\ dragging3
  /\ style3' = [style3 EXCEPT !.right = Max(0, startRight3 + (sx3 - x)),
                              !.bottom = Max(0, startBottom3 + (sy3 - y))]
  /\ records3' = Observed(hostParent)
  /\ last3' = Last3("mousemove", <<>>, <<>>, x, y)
  /\ UNCHANGED <<viewport3, dragging3, downs3, sx3, sy3, startRight3,
                 startBottom3, display3, panel3, busy3>>

\* onUp, src/unnamed/part_000:228-232; registered once by each mousedown
onUp(hits) ==
  /\ Frame3
  /\ ~records3
  /\ dragging3
  /\ hits \in Answers(display3)
  /\ dragging3' = FALSE
  /\ downs3' = 0
  /\ LET f == ensureVisible(hits)
     IN /\ style3' = f.style
        /\ last3' = Last3("mouseup", f.tested, f.passed, 0, 0)
  /\ records3' = QueuedAfterSearch(FALSE)
  /\ UNCHANGED <<viewport3, sx3, sy3, startRight3, startBottom3, display3,
                 panel3, busy3>>

\* the variables of V3 while another iteration is the one running
Idle3 ==
  /\ viewport3 = [w |-> 1280, h |-> 720]
  /\ style3 = corners[1]
  /\ dragging3 = FALSE
  /\ downs3 = 0
  /\ sx3 = 0
  /\ sy3 = 0
  /\ startRight3 = 0
  /\ startBottom3 = 0
  /\ display3 = ""
  /\ panel3 = FALSE
  /\ busy3 = FALSE
  /\ records3 = FALSE
  /\ last3 = Last3("idle", <<>>, <<>>, 0, 0)

(***************************************************************************)
(* The helpers of V1 on a DOM: src/content.js 26-85, and the extraction    *)
(* of src/content.js 123-161 on a page without a site handler.  Besides    *)
(* "w", a chunk's kind may be a phrase: the chunk is that phrase, once.    *)
(***************************************************************************)
\* a phrase as a one-chunk text, with its number of characters
Phrase(k) ==
  CASE k = "i am a bot"                  -> <<Chunk(k, 10)>>
    [] k = "I Am A Bot"                  -> <<Chunk(k, 10)>>
    [] k = "performed automatically"     -> <<Chunk(k, 23)>>
    [] k = "contact the moderators"      -> <<Chunk(k, 22)>>
    [] k = "shortstories is a place for" -> <<Chunk(k, 27)>>
    [] k = "rules"                       -> <<Chunk(k, 5)>>
    [] k = "RULES"                       -> <<Chunk(k, 5)>>
    [] k = "report"                      -> <<Chunk(k, 6)>>
    [] k = "moderators"                  -> <<Chunk(k, 10)>>

\* prose that holds none of the phrases: n characters of the paragraph named k
Prose(k, n) == <<Chunk(k, n)>>

\* String.prototype.toLowerCase
toLowerCaseNoop(t) == t
toLowerCase(t) ==
  [i \in 1..Len(t) |->
     CASE t[i].k = "I Am A Bot" -> Chunk("i am a bot", t[i].n)
       [] t[i].k = "RULES"      -> Chunk("rules", t[i].n)
       [] OTHER                 -> t[i]]

\* String.prototype.includes, on a lower-case text: a chunk is the phrase, or
\* is a phrase the searched one is part of
includes(t, s) ==
  \E i \in 1..Len(t) :
    \/ t[i].k = s
    \/ t[i].k = "contact the moderators" /\ s = "moderators"

\* isNoiseParagraph, src/content.js:26-35
isNoiseParagraph(text) ==
  LET t == toLowerCase(text)
  IN \/ includes(t, "i am a bot")
     \/ includes(t, "performed automatically")
     \/ includes(t, "contact the moderators")
     \/ includes(t, "shortstories is a place for")
     \/ (includes(t, "rules") /\ includes(t, "report") /\ includes(t, "moderators"))

\* src/content.js:42, whether a trimmed text is pushed
KeepsNonEmpty(s) == s # Empty
Keeps(s) == s # Empty /\ ~isNoiseParagraph(s)

RECURSIVE collectParts(_, _)
\* the forEach of src/content.js:40-43 over the elements' innerText
collectParts(els, parts) ==
  IF els = <<>> THEN parts
  ELSE LET s == Trim(Head(els))
       IN collectParts(Tail(els), IF Keeps(s) THEN Append(parts, s) ELSE parts)

RECURSIVE join(_, _)
\* Array.prototype.join
join(parts, sep) ==
  IF parts = <<>> THEN Empty
  ELSE IF Len(parts) = 1 THEN parts[1]
  ELSE parts[1] \o sep \o join(Tail(parts), sep)

\* the container that is absent (null)
NoNode == 0

\* collectText, src/content.js:37-45, on a container of the page dom
collectText(dom, container) ==
  IF container = NoNode THEN Empty
  ELSE Trim(CollapseNl(join(collectParts(dom[container], <<>>), NL(2))))

RECURSIVE addAll(_, _)
\* Set.prototype.add over the matches: a Set keeps the first insertion of a node
addAll(matches, candidates) ==
  IF matches = <<>> THEN candidates
  ELSE addAll(Tail(matches),
              IF \E i \in 1..Len(candidates) : candidates[i] = Head(matches)
              THEN candidates ELSE Append(candidates, Head(matches)))

\* src/content.js:81, whether a candidate replaces the best one so far
BetterReversed(len, bestLen) == len < bestLen
BetterOrEqual(len, bestLen) == len >= bestLen
Better(len, bestLen) == len > bestLen

Best(el, text, len, scored) ==
  [element |-> el, text |-> text, length |-> len, scored |-> scored]

RECURSIVE scoreAll(_, _, _)
\* the forEach of src/content.js:78-82; scored lists the candidates handed to
\* collectText
scoreAll(dom, candidates, best) ==
  IF candidates = <<>> THEN best
  ELSE LET el == Head(candidates)
           t == collectText(dom, el)
           len == NormLen(t)
           scored == Append(best.scored, el)
       IN scoreAll(dom, Tail(candidates),
                   IF Better(len, best.length) THEN Best(el, t, len, scored)
                   ELSE [best EXCEPT !.scored = scored])

\* largestTextBlock, src/content.js:63-85
largestTextBlock(dom, matches) ==
  scoreAll(dom, addAll(matches, <<>>), Best(NoNode, Empty, 0, <<>>))

\* the page as extractArticleText reads it on a host without a site handler
PageD(dom, matches, readab) ==
  [host |-> <<"example", "org">>,
   site |-> [title |-> DocTitle, text |-> Empty],
   big |-> largestTextBlock(dom, matches).text,
   readab |-> readab]

\* containers of the page
MaxNodesD == 2
NodesD == 1..MaxNodesD

\* what a container holds
NodeContents ==
  { \* nothing but an empty and a noisy element
    << SP(2), Phrase("i am a bot") >>,
    \* a short text
    << Prose("o", 30) >>,
    \* two elements, as long as the short text once normalized
    << Prose("w", 14), Prose("w", 15) >>,
    \* a noisy element in capitals, an element with a run of newlines inside,
    \* an element with two of the three terms
    << Prose("w", 10) \o SP(1) \o Phrase("I Am A Bot"),
       Prose("o", 20) \o NL(3) \o Prose("o", 5),
       Phrase("rules") \o SP(1) \o Phrase("report") >>,
    \* an article: 1050 characters of text in two elements, between three
    \* noisy elements
    << Prose("a", 600),
       Phrase("RULES") \o SP(1) \o Phrase("report") \o SP(1) \o Phrase("moderators"),
       NL(1) \o Prose("b", 450) \o SP(1),
       Prose("w", 4) \o SP(1) \o Phrase("contact the moderators"),
       Phrase("performed automatically") \o NB(1) >>,
    \* preformatted text, mostly spaces, with a phrase of the forum
    << Prose("a", 300) \o SP(700) \o Prose("b", 50),
       Phrase("shortstories is a place for") >> }

\* what the selection rules yield: nothing, one container, or a container that
\* several rules match
MatchSeqs ==
  {<<>>} \cup {<<n>> : n \in NodesD} \cup {<<n, m, n>> : n, m \in NodesD}

ReadabOutcomesD ==
  {Readab("throws", Empty, Empty), Readab("article", W(6), SP(1) \o W(1200))}

LastD(op, node, text, flag, best, res) ==
  [op |-> op, node |-> node, text |-> text, flag |-> flag, best |-> best,
   res |-> res]
NoBest == Best(NoNode, Empty, 0, <<>>)
NoRes == [ok |-> FALSE, title |-> Empty, text |-> Empty, calls |-> <<>>]

\* isNoiseParagraph is called on the text of an element of the page
ClassifyD(n, i) ==
  /\ FrameD
  /\ i \in 1..Len(domD[n])
  /\ lastD' = LastD("isNoiseParagraph", NoNode, domD[n][i],
                    isNoiseParagraph(domD[n][i]), NoBest, NoRes)
  /\ UNCHANGED <<domD, matchesD, readabD>>

\* collectText is called on a container, or on none
CollectD(root) ==
  /\ FrameD
  /\ lastD' = LastD("collectText", root, collectText(domD, root), FALSE,
                    NoBest, NoRes)
  /\ UNCHANGED <<domD, matchesD, readabD>>

\* largestTextBlock is called
ScanD ==
  /\ FrameD
  /\ lastD' = LastD("largestTextBlock", NoNode, Empty, FALSE,
                    largestTextBlock(domD, matchesD), NoRes)
  /\ UNCHANGED <<domD, matchesD, readabD>>

\* extractArticleText runs on the page, after its timer
ExtractD ==
  /\ FrameD
  /\ lastD' = LastD("extractArticleText", NoNode, Empty, FALSE, NoBest,
                    extractArticleText(PageD(domD, matchesD, readabD)))
  /\ UNCHANGED <<domD, matchesD, readabD>>

\* the variables of the DOM while a content script is the one running
IdleD ==
  /\ domD = [n \in NodesD |-> <<>>]
  /\ matchesD = <<>>
  /\ readabD = Readab("null", Empty, Empty)
  /\ lastD = LastD("idle", NoNode, Empty, FALSE, NoBest, NoRes)

\* the variables of V1 while another iteration is the one running
Idle1 ==
  /\ page1 = CHOOSE p \in Pages1 : TRUE
  /\ btn1 = [disabled |-> FALSE, label |-> Label(" TL;DR", TRUE)]
  /\ cyc1 = [c \in CycleIds1 |-> IdleCycle]
  /\ started1 = 0
  /\ overlay1 = NoOverlay
  /\ sent1 = 0
  /\ last1 = Last("init", 0, <<>>, NoMsg)

\* the variables of V2 while another iteration is the one running
Idle2 ==
  /\ page2 = CHOOSE p \in Pages2 : TRUE
  /\ stored2 = TRUE
  /\ read2 = FALSE
  /\ SRC_ENABLED = TRUE
  /\ tldrBtn = 0
  /\ btns2 = [b \in ButtonIds2 |-> NoButton]
  /\ nBtn2 = 0
  /\ cyc2 = [c \in CycleIds2 |-> IdleCycle2]
  /\ started2 = 0
  /\ overlay2 = NoOverlay
  /\ sent2 = 0
  /\ last2 = Last2("init", 0, 0, NoMsg, NoResp, FALSE)

\* V1 once the script has run: the button built at src/content.js:13-22
Init1 ==
  /\ page1 \in Pages1
  /\ btn1 = [disabled |-> FALSE, label |-> Label(" TL;DR", TRUE)]
  /\ cyc1 = [c \in CycleIds1 |-> IdleCycle]
  /\ started1 = 0
  /\ overlay1 = NoOverlay
  /\ sent1 = 0
  /\ last1 = Last("init", 0, <<>>, NoMsg)
  /\ Idle2
  /\ Idle3
  /\ IdleD

\* V2 once the script has run to its end: src/content.js:258-275
Init2 ==
  /\ page2 \in Pages2
  /\ stored2 \in BOOLEAN
  /\ read2 = FALSE
  /\ SRC_ENABLED = TRUE
  /\ tldrBtn = 0
  /\ btns2 = [b \in ButtonIds2 |-> NoButton]
  /\ nBtn2 = 0
  /\ cyc2 = [c \in CycleIds2 |-> IdleCycle2]
  /\ started2 = 0
  /\ overlay2 = NoOverlay
  /\ sent2 = 0
  /\ last2 = Last2("init", 0, 0, NoMsg, NoResp, FALSE)
  /\ Idle1
  /\ Idle3
  /\ IdleD

\* V3 once injectTldrButton has run: the host is built at the bottom-right
\* corner (src/unnamed/part_000:117-125) and the first search at
\* src/unnamed/part_000:208 has placed it
Init3 ==
  /\ viewport3 \in Viewports
  /\ \E hits \in HitSeqs :
       LET f == ensureVisible(hits)
       IN /\ style3 = f.style
          /\ last3 = Last3("inject", f.tested, f.passed, 0, 0)
  /\ dragging3 = FALSE
  /\ downs3 = 0
  /\ sx3 = 0
  /\ sy3 = 0
  /\ startRight3 = 0
  /\ startBottom3 = 0
  /\ display3 = ""
  /\ panel3 = FALSE
  /\ busy3 = FALSE
  /\ records3 = FALSE
  /\ Idle1
  /\ Idle2
  /\ IdleD

Next2 ==
  \/ StartupRead2
  \/ OnChanged2
  \/ \E b \in ButtonIds2 : Click2(b)
  \/ \E c \in CycleIds2, resp \in Responses : Response2(c, resp)
  \/ Dismiss2

Next1 ==
  \/ Click1
  \/ \E c \in CycleIds1 : Timer1(c)
  \/ \E c \in CycleIds1, resp \in Responses : Response1(c, resp)
  \/ Dismiss1

SpecV1 == Init1 /\ [][Next1]_vars

SpecV2 == Init2 /\ [][Next2]_vars

\* any page, before any call
InitD ==
  /\ domD \in [NodesD -> NodeContents]
  /\ matchesD \in MatchSeqs
  /\ readabD \in ReadabOutcomesD
  /\ lastD = LastD("none", NoNode, Empty, FALSE, NoBest, NoRes)
  /\ Idle1
  /\ Idle2
  /\ Idle3

NextD ==
  \/ \E n \in NodesD, i \in 1..5 : ClassifyD(n, i)
  \/ \E root \in NodesD \cup {NoNode} : CollectD(root)
  \/ ScanD
  \/ ExtractD

SpecD == InitD /\ [][NextD]_vars

Next3 ==
  \/ \E hits \in HitSeqs : Scroll3(hits)
  \/ \E hits \in HitSeqs, vp \in Viewports : Resize3(hits, vp)
  \/ \E hits \in HitSeqs : Mutation3(hits)
  \/ \E p \in Pointers : MouseDown3(p.x, p.y)
  \/ \E p \in Pointers : onDrag(p.x, p.y)
  \/ \E hits \in HitSeqs : onUp(hits)
  \/ BodyChange3
  \/ Click3
  \/ CycleEnd3
  \/ Dismiss3

SpecV3 == Init3 /\ [][Next3]_vars

Range(f) == {f[i] : i \in DOMAIN f}

(***************************************************************************)
(* Claims checked under SpecV1.                                            *)
(***************************************************************************)
\* C1: on a page of the recognized site family whose site extractor returns a
\* text of normalized length at least 800, an extraction invokes neither the
\* Candidate Scanner (largestTextBlock) nor the readability fallback.
C1_RichSiteTextSkipsScannerAndReadability ==
  (/\ last1.ev = "timer"
   /\ IsRedditHost(page1.host)
   /\ NormLen(page1.site.text) >= RichThreshold)
  => /\ "extractReddit" \in Range(last1.calls)
     /\ "largestTextBlock" \notin Range(last1.calls)
     /\ "Readability" \notin Range(last1.calls)

\* an extraction on a reddit page whose site text has normalized length exactly
\* 800 has run, on a page where the scanner's text is longer than the site text
C1_Witness ==
  /\ last1.ev = "timer"
  /\ IsRedditHost(page1.host)
  /\ NormLen(page1.site.text) = RichThreshold
  /\ StrLen(page1.big) > StrLen(page1.site.text)
  /\ cyc1[last1.id].text = page1.site.text

\* C4: when the extraction returns a final text shorter than 80 characters, the
\* handler shows the too-short error, ends the cycle and sends no request.
C4_TooShortSendsNoRequest ==
  [][\A c \in CycleIds1 :
       (/\ cyc1[c].pc = "delay"
        /\ cyc1'[c].pc # "delay"
        /\ extractArticleText(page1).ok
        /\ StrLen(extractArticleText(page1).text) < MinSummarizable)
       => /\ sent1' = sent1
          /\ cyc1'[c].pc = "ended"
          /\ overlay1' = showOverlay(ErrorTitle, TooShort)
          /\ "fetch" \notin Range(last1'.calls)]_vars

\* a cycle ended too short on a text that had 80 characters before the final
\* normalization and 79 after it, and nothing was sent
C4_Witness ==
  /\ last1.ev = "timer"
  /\ last1.out = TooShort
  /\ sent1 = 0
  /\ ~IsRedditHost(page1.host)
  /\ StrLen(page1.big) = MinSummarizable
  /\ StrLen(FinalNormalize(page1.big)) = MinSummarizable - 1

\* C11: a cycle sends at most one request: a request is sent only when a cycle
\* passes from the extraction to the fetch, a cycle that has sent its request
\* only waits for the answer or ends, an ended cycle stays ended, and a failed
\* request ends its cycle with the error shown in the panel and nothing re-sent.
C11_OneRequestPerCycleNoRetry ==
  [][/\ sent1' # sent1
        => /\ sent1' = sent1 + 1
           /\ \E c \in CycleIds1 : cyc1[c].pc = "delay" /\ cyc1'[c].pc = "fetch"
     /\ \A c \in CycleIds1 :
          /\ cyc1[c].pc = "fetch" => cyc1'[c].pc \in {"fetch", "ended"}
          /\ cyc1[c].pc = "ended" => cyc1'[c].pc = "ended"
     /\ (last1'.ev = "response" /\ IsError(last1'.out))
        => /\ sent1' = sent1
           /\ cyc1'[last1'.id].pc = "ended"
           /\ overlay1' = showOverlay(ErrorTitle, last1'.out)]_vars

\* the one request of a cycle was answered with a non-2xx status: the error is
\* in the panel and the cycle has ended
C11_Witness ==
  /\ last1.ev = "response"
  /\ last1.out.kind = "BackendError"
  /\ sent1 = 1
  /\ cyc1[last1.id].pc = "ended"
  /\ overlay1 = showOverlay(ErrorTitle, last1.out)

\* what the strategies find on a page: the site extractor (only run on the
\* recognized site family), and the readability fallback (a parse that throws
\* or returns nothing finds no text)
SiteText(page) == IF IsRedditHost(page.host) THEN page.site.text ELSE Empty
ReadabText(page) ==
  IF page.readab.k = "article" THEN Trim(page.readab.textContent) ELSE Empty

\* the strategies an extraction invoked
Invoked(calls, name) == \E i \in 1..Len(calls) : calls[i] = name

\* the text held after the scanner step and after the readability step, when a
\* later text replaces the held one only if strictly longer
HeldAfterScanner(page, calls) ==
  IF Invoked(calls, "largestTextBlock") /\ StrLen(page.big) > StrLen(SiteText(page))
  THEN page.big ELSE SiteText(page)
HeldAfterReadability(page, calls) ==
  IF /\ Invoked(calls, "Readability")
     /\ StrLen(ReadabText(page)) > StrLen(HeldAfterScanner(page, calls))
  THEN ReadabText(page) ELSE HeldAfterScanner(page, calls)

\* C16: an extraction fails with the extraction-failed error exactly when the
\* site extractor, the scanner and the readability fallback all found no text (a
\* readability parse that throws finds none and aborts nothing); otherwise it
\* returns a text that is not empty after the final normalization.
C16_FailsIffNoStrategyYieldsText ==
  (last1.ev = "timer")
  => LET failed == last1.out = ExtractionFailed
         r == extractArticleText(page1)
     IN /\ failed <=> /\ SiteText(page1) = Empty
                      /\ page1.big = Empty
                      /\ ReadabText(page1) = Empty
        /\ ~failed => (r.ok /\ r.text # Empty /\ StrLen(r.text) > 0)
        /\ cyc1[last1.id].pc = "fetch" => cyc1[last1.id].text # Empty

\* the readability parse threw on a page where the scanner had found a text: the
\* extraction went on to the request with that text
C16_Witness ==
  /\ last1.ev = "timer"
  /\ page1.readab.k = "throws"
  /\ Invoked(last1.calls, "Readability")
  /\ cyc1[last1.id].pc = "fetch"
  /\ cyc1[last1.id].text = W(80)

\* C18: expandCollapsers runs once in an extraction, before anything else, and
\* the settle delay is started after it: the expander is called before the
\* timer is set, and nothing is read before the timer has fired.
C18_ExpanderThenSettleDelay ==
  /\ last1.ev = "click" => last1.calls = <<"expandCollapsers", "setTimeout">>
  /\ last1.ev = "timer" => ~Invoked(last1.calls, "expandCollapsers")

\* C19: the scanner is invoked iff the site text is missing or shorter than 800
\* once normalized, the readability fallback iff the text held after the scanner
\* step is missing or shorter than 400 once normalized; a non-empty text below
\* the threshold does not stop the chain.
C19_ChainShortCircuitsOnThresholds ==
  (last1.ev = "timer")
  => LET text0 == SiteText(page1)
         text1 == HeldAfterScanner(page1, last1.calls)
     IN /\ Invoked(last1.calls, "largestTextBlock")
           <=> (text0 = Empty \/ NormLen(text0) < 800)
        /\ Invoked(last1.calls, "Readability")
           <=> (text1 = Empty \/ NormLen(text1) < 400)

\* the site extractor found a weak text of 80 characters: the scanner and the
\* readability fallback both ran
C19_Witness ==
  /\ last1.ev = "timer"
  /\ SiteText(page1) = W(80)
  /\ page1.big = Empty
  /\ Invoked(last1.calls, "largestTextBlock")
  /\ Invoked(last1.calls, "Readability")

\* C20: the text an extraction ends with is the text held when each later text
\* replaces the held one only if strictly longer, so the held text never gets
\* shorter and a later text of equal length never displaces an earlier one.
C20_HeldTextReplacedOnlyByLonger ==
  (last1.ev = "timer")
  => LET held1 == HeldAfterScanner(page1, last1.calls)
         held2 == HeldAfterReadability(page1, last1.calls)
     IN /\ StrLen(SiteText(page1)) <= StrLen(held1)
        /\ StrLen(held1) <= StrLen(held2)
        /\ last1.out = ExtractionFailed <=> held2 = Empty
        /\ last1.out = TooShort => StrLen(FinalNormalize(held2)) < 80
        /\ cyc1[last1.id].pc = "fetch"
           => cyc1[last1.id].text = FinalNormalize(held2)

\* the scanner found a text exactly as long as the site text: the site text
\* was kept
C20_Witness ==
  /\ last1.ev = "timer"
  /\ SiteText(page1) = W(400)
  /\ page1.big = W(300) \o SP(2) \o W(98)
  /\ cyc1[last1.id].pc = "fetch"
  /\ cyc1[last1.id].text = W(400)

\* the title found by the strategy whose text is the final one: the readability
\* article's title when its text displaced the held one, no title when the
\* scanner's text did (the scanner looks for none), else the site extractor's
TitleOfWinner(page, calls) ==
  IF /\ Invoked(calls, "Readability")
     /\ StrLen(ReadabText(page)) > StrLen(HeldAfterScanner(page, calls))
  THEN Trim(page.readab.title)
  ELSE IF /\ Invoked(calls, "largestTextBlock")
          /\ StrLen(page.big) > StrLen(SiteText(page))
       THEN Empty
       ELSE IF IsRedditHost(page.host) THEN page.site.title ELSE Empty

\* C21: the title an extraction returns is the title found by the strategy whose
\* text became the final text, or the document title when that strategy found
\* none; a strategy whose text was not adopted does not change the title.
C21_TitleFollowsWinningText ==
  (last1.ev = "timer" /\ cyc1[last1.id].pc = "fetch")
  => cyc1[last1.id].title = OrElse(TitleOfWinner(page1, last1.calls), DocTitle)

(***************************************************************************)
(* Claims checked under SpecV2.                                            *)
(***************************************************************************)
\* the cycles a control started that await the backend
InFlight2(b) == {c \in CycleIds2 : cyc2[c].pc = "fetch" /\ cyc2[c].btn = b}

\* C2: on each control at most one extraction-and-summarize cycle is in flight
\* at a time, and a control is disabled for as long as a cycle it started is in
\* flight (so that an attempt on it starts no cycle and sends no request).
C2_OneCycleInFlightPerControl ==
  \A b \in ButtonIds2 :
    /\ Cardinality(InFlight2(b)) <= 1
    /\ InFlight2(b) # {} => btns2[b].disabled

\* C3: every cycle that fails is caught by the handler, shown as an error
\* panel, and ends with the control that started it enabled under its original
\* label, without an uncaught error, whatever else happened during the cycle.
C3_FailedCycleRestoresControl ==
  (last2.ev \in {"click", "response"} /\ IsError(last2.out))
  => /\ ~last2.threw
     /\ overlay2 = showOverlay(ErrorTitle, last2.out)
     /\ ~btns2[last2.btn].disabled
     /\ btns2[last2.btn].label.text = " TL;DR"

\* C9: after the startup read and after each handled change of the preference,
\* the script's copy is the preference and a control is in the page iff it is
\* true: turning it off leaves no control and no panel, on leaves exactly one
\* control, the one tldrBtn names, with its click listener, and a control just
\* built is enabled.
C9_ControlPresentIffEnabled ==
  (last2.ev \in {"startup", "changed"})
  => /\ SRC_ENABLED = stored2
     /\ (DomButtons # {}) <=> SRC_ENABLED
     /\ Cardinality(DomButtons) <= 1
     /\ ~SRC_ENABLED => tldrBtn = 0
     /\ (last2.ev = "changed" /\ ~SRC_ENABLED) => ~overlay2.shown
     /\ SRC_ENABLED => (DomButtons = {tldrBtn} /\ btns2[tldrBtn].listener)
     /\ last2.btn # 0 => (last2.btn = tldrBtn /\ ~btns2[tldrBtn].disabled)

\* the preference was turned off and on again while a cycle was in flight: a
\* second control has just been built
C9_Witness ==
  /\ last2.ev = "changed"
  /\ SRC_ENABLED
  /\ last2.btn = 2
  /\ btns2[1].state = "removed"
  /\ InFlight2(1) # {}

\* C10: summarizeText answers a non-2xx response with a backend error carrying
\* the status code and the body text (empty when the body cannot be read), and
\* a 2xx response whose body has no summary field with the malformed-response
\* error, never with a summary.
C10_ClientErrorMapping ==
  (last2.ev = "response" /\ last2.resp.k = "http")
  => /\ ~RespOk(last2.resp)
        => last2.out = BackendError(last2.resp.status, ErrText(last2.resp))
     /\ (RespOk(last2.resp) /\ last2.resp.readable /\ last2.resp.json = "nofield")
        => last2.out = Malformed

\* C22: whenever the last handled value of the preference is false, no control
\* and no result panel is in the page, also when a cycle that was in flight as
\* the preference was turned off completes afterwards.
C22_NothingShownWhileDisabled ==
  ~SRC_ENABLED => (DomButtons = {} /\ ~overlay2.shown)

\* the summarize requests awaiting the backend's answer
Outstanding2 == {c \in CycleIds2 : cyc2[c].pc = "fetch"}

\* C23: at most one summarize request is outstanding in the page at any time,
\* also across a preference turned off and on again during a cycle, and the
\* completion of a cycle changes no control but the one that started it.
C23_OneRequestOutstandingPerPage ==
  [][/\ Cardinality(Outstanding2') <= 1
     /\ last2'.ev = "response"
        => \A b \in ButtonIds2 \ {last2'.btn} : btns2'[b] = btns2[b]]_vars

(***************************************************************************)
(* Claims about the placement and the drag of V3, checked under SpecV3.     *)
(***************************************************************************)
\* the callbacks that run the placement search
SearchEvents == {"inject", "scroll", "resize", "mutation", "mouseup"}

\* the corners by priority: bottom-right, bottom-left, top-right, top-left
CornerOrder ==
  << [right |-> 16, left |-> Auto, bottom |-> 16, top |-> Auto],
     [right |-> Auto, left |-> 16, bottom |-> 16, top |-> Auto],
     [right |-> 16, left |-> Auto, bottom |-> Auto, top |-> 16],
     [right |-> Auto, left |-> 16, bottom |-> Auto, top |-> 16] >>

\* C5: every placement search starts from scratch at the bottom-right corner,
\* hit-tests the corners in the order bottom-right, bottom-left, top-right,
\* top-left, stops at the first corner whose hit-test passes and leaves the
\* control there, never at a corner of lower priority.
C5_FirstPassingCornerInPriorityOrder ==
  (last3.ev \in SearchEvents)
  => LET t == last3.tested
         p == last3.passed
         n == Len(t)
     IN /\ n >= 1
        /\ Len(p) = n
        /\ \A i \in 1..n : i <= 4 => t[i] = CornerOrder[i]
        /\ \A i \in 1..n : (i <= 4 /\ p[i]) => (i = n /\ style3 = CornerOrder[i])
        /\ n <= 4 => p[n]

\* a scroll found the first two corners occluded and left the control at the
\* top-right corner
C5_Witness ==
  /\ last3.ev = "scroll"
  /\ last3.passed = <<FALSE, FALSE, TRUE>>
  /\ last3.tested = <<CornerOrder[1], CornerOrder[2], CornerOrder[3]>>
  /\ style3 = CornerOrder[3]

\* C6: when no corner passes, the search puts the control on the right edge and
\* slides it up in steps of 100 px from the bottom-right corner, at most five
\* times, stops at the first offset that passes and otherwise ends at the last
\* offset tried; no search makes more than nine hit-tests.
C6_FallbackSlidesUpFiveSteps ==
  (last3.ev \in SearchEvents)
  => LET t == last3.tested
         p == last3.passed
         n == Len(t)
     IN /\ n <= 9
        /\ (n >= 4 /\ \A i \in 1..4 : ~p[i]) => n > 4
        /\ n > 4
           => /\ \A i \in 1..(n - 1) : ~p[i]
              /\ \A j \in 5..n :
                   t[j] = [right |-> 16, left |-> Auto,
                           bottom |-> 16 + 100 * (j - 4), top |-> Auto]
              /\ style3 = t[n]
              /\ p[n] \/ n = 9
        /\ (\A i \in 1..n : ~p[i])
           => style3 = [right |-> 16, left |-> Auto, bottom |-> 516, top |-> Auto]

\* a search after a drag found every position occluded and ended at the fifth
\* fallback offset after nine hit-tests
C6_Witness ==
  /\ last3.ev = "mouseup"
  /\ Len(last3.tested) = 9
  /\ \A i \in 1..9 : ~last3.passed[i]
  /\ style3 = [right |-> 16, left |-> Auto, bottom |-> 516, top |-> Auto]

\* C7: once a drag has set a custom offset, the next search (on pointer-up, or
\* on a scroll, a resize or a body mutation) hit-tests that offset first and
\* keeps the control there if the hit-test passes.
C7_DragOffsetRevalidatedFirst ==
  [][(last3.ev = "mousemove" /\ last3'.ev \in SearchEvents)
     => /\ last3'.tested[1] = style3
        /\ last3'.passed[1] => style3' = style3]_vars

\* the distance of the button from the window's right edge: a host with a left
\* offset is laid out from the left, whatever its right offset
RightOffset(st, vp) ==
  IF st.left # Auto THEN vp.w - ButtonSize - st.left ELSE st.right

\* the distance of the button from the window's bottom edge
BottomOffset(st, vp) ==
  IF st.top # Auto THEN vp.h - ButtonSize - st.top ELSE st.bottom

\* C8: pointer-down records the control's current offsets from the right and
\* the bottom edge and the pointer position, wherever the control is placed;
\* each pointer-move of the drag sets the control's offset on each axis to
\* max(0, recorded offset + pointer delta), never a negative number.
C8_DragRecordsOffsetAndClampsAtZero ==
  [][/\ last3'.ev = "mousedown"
        => /\ sx3' = last3'.x
           /\ sy3' = last3'.y
           /\ startRight3' = RightOffset(style3, viewport3)
           /\ startBottom3' = BottomOffset(style3, viewport3)
     /\ last3'.ev = "mousemove"
        => /\ style3'.right = Max(0, startRight3 + (sx3 - last3'.x))
           /\ style3'.bottom = Max(0, startBottom3 + (sy3 - last3'.y))
           /\ style3'.right >= 0
           /\ style3'.bottom >= 0]_vars

\* C24: in every placement state the control is anchored by exactly one
\* horizontal offset (left or right, the other auto) and exactly one vertical
\* offset (top or bottom, the other auto), also after a drag that started at a
\* left or top corner.
C24_OneOffsetPerAxis ==
  /\ (style3.left = Auto) # (style3.right = Auto)
  /\ (style3.top = Auto) # (style3.bottom = Auto)

\* C25: a placement search queues nothing for the observer (the host is outside
\* the observed body), so a search never causes another one: whenever records
\* are queued the next thing to run is one search, which empties the queue, and
\* nothing is queued after any search.  Opening and dismissing the panel each
\* queue one search, and the search after a dismissal runs with the host
\* displayed and leaves it displayed.
C25_SearchNeverTriggersSearch ==
  /\ [](last3.ev \in SearchEvents => ~records3)
  /\ [][/\ records3 => (last3'.ev = "mutation" /\ ~records3')
        /\ panel3' # panel3 => (~records3 /\ records3')
        /\ (last3.ev = "dismiss" /\ last3'.ev = "mutation")
           => (~panel3' /\ display3 = "" /\ display3' = "")]_vars

\* the panel has just been dismissed: the host is displayed again, still where
\* the search run behind the panel left it, and one search is queued
C25_Witness ==
  /\ last3.ev = "dismiss"
  /\ records3
  /\ ~panel3
  /\ display3 = ""
  /\ style3 = slideTo(SlideStep * SlideAttempts)

(***************************************************************************)
(* Claims about the helpers of V1 on a DOM, checked under SpecD.            *)
(***************************************************************************)
\* the boilerplate fragments and the three terms of the classifier
Fragments ==
  {"i am a bot", "performed automatically", "contact the moderators",
   "shortstories is a place for"}
Terms == {"rules", "report", "moderators"}

\* the fragments and terms a chunk contains, read without regard to case
PhrasesIn(k) ==
  CASE k \in {"i am a bot", "I Am A Bot"} -> {"i am a bot"}
    [] k = "performed automatically"      -> {"performed automatically"}
    [] k = "contact the moderators"       -> {"contact the moderators", "moderators"}
    [] k = "shortstories is a place for"  -> {"shortstories is a place for"}
    [] k \in {"rules", "RULES"}           -> {"rules"}
    [] k = "report"                       -> {"report"}
    [] k = "moderators"                   -> {"moderators"}
    [] OTHER                              -> {}

Holds(text, p) == \E i \in 1..Len(text) : p \in PhrasesIn(text[i].k)

\* a text is noisy: it holds a fragment, or all three terms
Noisy(text) ==
  \/ \E f \in Fragments : Holds(text, f)
  \/ \A t \in Terms : Holds(text, t)

\* C12: isNoiseParagraph returns true iff the text holds, in any case, one of
\* the boilerplate fragments or all three of "rules", "report", "moderators",
\* and false for every other text; the answer depends on the text alone.
C12_NoiseIffFragmentOrThreeTerms ==
  (lastD.op = "isNoiseParagraph") => (lastD.flag <=> Noisy(lastD.text))

\* a text with a fragment in capitals was classified as noise
C12_Witness ==
  /\ lastD.op = "isNoiseParagraph"
  /\ lastD.text = Prose("w", 10) \o SP(1) \o Phrase("I Am A Bot")
  /\ lastD.flag

\* a trimmed text the collector keeps: not empty, not noisy
Kept(s) == s # Empty /\ ~Noisy(s)
KeptOf(els) == SelectSeq([i \in 1..Len(els) |-> Trim(els[i])], Kept)

\* C13: collectText returns the trimmed texts of the container's elements in
\* document order, the empty and the noisy ones left out, joined by a blank
\* line (runs of three or more newlines reduced to two); the result holds no
\* boilerplate fragment and no run of three or more newlines, and is empty
\* when the container is absent.
C13_CollectJoinsKeptTexts ==
  (lastD.op = "collectText")
  => LET out == lastD.text
     IN /\ lastD.node = NoNode => out = Empty
        /\ lastD.node # NoNode
           => out = Trim(CollapseNl(join(KeptOf(domD[lastD.node]), NL(2))))
        /\ \A i \in 1..Len(out) :
             /\ PhrasesIn(out[i].k) \cap Fragments = {}
             /\ out[i].k = "nl" => out[i].n <= 2
             /\ (out[i].k = "nl" /\ i > 1) => out[i - 1].k # "nl"

\* the text of the article was collected: two elements joined by a blank line,
\* the three noisy elements left out
C13_Witness ==
  /\ lastD.op = "collectText"
  /\ lastD.node # NoNode
  /\ \E i \in 1..Len(domD[lastD.node]) : Noisy(domD[lastD.node][i])
  /\ lastD.text = Prose("a", 600) \o NL(2) \o Prose("b", 450)

\* the candidates, and where the rules first yield one
CandidatesD == {matchesD[i] : i \in 1..Len(matchesD)}
FirstMatch(n) ==
  CHOOSE i \in 1..Len(matchesD) :
    matchesD[i] = n /\ \A j \in 1..(i - 1) : matchesD[j] # n
Score(n) == NormLen(collectText(domD, n))

\* C14: largestTextBlock scores each matched container once, however many rules
\* match it, and returns the container whose collected text is longest once
\* normalized, the first one encountered among those of that length; it returns
\* no container when none has any text.
C14_ScannerReturnsFirstLongest ==
  (lastD.op = "largestTextBlock")
  => LET r == lastD.best
     IN /\ Len(r.scored) = Cardinality(CandidatesD)
        /\ {r.scored[i] : i \in 1..Len(r.scored)} = CandidatesD
        /\ IF \A n \in CandidatesD : collectText(domD, n) = Empty
           THEN r.element = NoNode /\ r.text = Empty /\ r.length = 0
           ELSE /\ r.element \in CandidatesD
                /\ r.text = collectText(domD, r.element)
                /\ r.length = Score(r.element)
                /\ \A n \in CandidatesD :
                     /\ Score(n) <= r.length
                     /\ Score(n) = r.length
                        => FirstMatch(r.element) <= FirstMatch(n)

\* two containers with different texts of the same normalized length, the second
\* matched by two rules: the one encountered first won, each was scored once
C14_Witness ==
  /\ lastD.op = "largestTextBlock"
  /\ matchesD = <<2, 1, 2>>
  /\ domD[1] # domD[2]
  /\ Score(1) = 30
  /\ Score(2) = 30
  /\ lastD.best.element = 2
  /\ lastD.best.scored = <<2, 1>>

RECURSIVE NonWsLen(_)
\* the characters of a text that are not whitespace
NonWsLen(t) ==
  IF t = <<>> THEN 0
  ELSE (IF IsWs(Head(t)) THEN 0 ELSE Head(t).n) + NonWsLen(Tail(t))

\* part occurs in text as it stands
Occurs(part, text) ==
  \E i \in 0..(Len(text) - Len(part)) : SubSeq(text, i + 1, i + Len(part)) = part

\* art is an article container of the page: matched by the rules, with at least
\* 1000 characters of text in elements that are not noise, some noisy elements,
\* and every other matched container holding under 50 characters
IsArticleD(art) ==
  /\ art \in CandidatesD
  /\ NonWsLen(join(KeptOf(domD[art]), NL(2))) >= 1000
  /\ \E i \in 1..Len(domD[art]) : Noisy(domD[art][i])
  /\ \A n \in CandidatesD \ {art} : StrLen(collectText(domD, n)) < 50

=============================================================================
